---- MODULE Spec2Model ----
(***************************************************************************)
(* skill-manager: install.py / uninstall.py / detect_agents.py.            *)
(*                                                                         *)
(* Strings are sequences of tokens: a token is a maximal run of            *)
(* characters holding no "/", and "/" itself is a token.  So the string    *)
(* "acme/kit" is <<"acme", "/", "kit">>.  A filesystem path is a sequence  *)
(* of components.                                                          *)
(***************************************************************************)
EXTENDS Integers, Sequences, FiniteSets, TLC

(* ------------------------------ bounds -------------------------------- *)

\* the hosts modelled may hold the first NumAgents agents of the registry
NumAgents == 3
\* at most this many agents are detected on one host
MaxDetected == 2
\* at most this many command invocations in one session
MaxOps == 2
\* at most this many agents are detected on the host of a session
SessionAgents == 1
\* a source string handed to the parser has at most this many segments
MaxSegs == 5

(* ----------------------------- strings -------------------------------- *)

SLASH == "/"

Last(s) == s[Len(s)]

RECURSIVE SplitFrom(_, _, _)
\* str.split("/"): the segments between separators, empty ones included
SplitFrom(s, i, cur) ==
  IF i > Len(s) THEN <<cur>>
  ELSE IF s[i] = SLASH THEN <<cur>> \o SplitFrom(s, i + 1, "")
  ELSE SplitFrom(s, i + 1, s[i])

Split(s) == SplitFrom(s, 1, "")

RECURSIVE Join(_)
\* "/".join(parts), as a token string
Join(parts) ==
  IF Len(parts) = 0 THEN << >>
  ELSE IF Len(parts) = 1 THEN (IF parts[1] = "" THEN << >> ELSE <<parts[1]>>)
  ELSE (IF parts[1] = "" THEN << >> ELSE <<parts[1]>>) \o <<SLASH>> \o Join(Tail(parts))

NonEmpty(parts) == SelectSeq(parts, LAMBDA p : p # "")

RECURSIVE RStripSlash(_)
\* str.rstrip("/")
RStripSlash(s) ==
  IF Len(s) > 0 /\ Last(s) = SLASH THEN RStripSlash(SubSeq(s, 1, Len(s) - 1)) ELSE s

\* tokens whose text begins with the four characters "http"
HttpTokens == {"http:", "https:", "httpd"}
SchemeTokens == {"http:", "https:", "ftp:"}

\* str.startswith("http")
StartsWithHttp(s) == Len(s) > 0 /\ s[1] \in HttpTokens

\* urllib.parse.urlparse(url).netloc
UrlNetloc(s) ==
  IF Len(s) >= 3 /\ s[1] \in SchemeTokens /\ s[2] = SLASH /\ s[3] = SLASH
  THEN (IF Len(s) >= 4 /\ s[4] # SLASH THEN s[4] ELSE "")
  ELSE ""

\* urllib.parse.urlparse(url).path
UrlPath(s) ==
  IF Len(s) >= 3 /\ s[1] \in SchemeTokens /\ s[2] = SLASH /\ s[3] = SLASH
  THEN (IF Len(s) >= 4 /\ s[4] # SLASH THEN SubSeq(s, 5, Len(s)) ELSE SubSeq(s, 4, Len(s)))
  ELSE IF Len(s) >= 1 /\ s[1] \in SchemeTokens THEN SubSeq(s, 2, Len(s))
  ELSE s

(* ------------------------------ parser -------------------------------- *)

DEFAULT_REF == "main"

None == [tag |-> "None"]

Source(owner, repo, ref, path, skill_name) ==
  [tag |-> "Source", owner |-> owner, repo |-> repo, ref |-> ref,
   path |-> path, skill_name |-> skill_name]

InstallError(msg) == [tag |-> "InstallError", msg |-> msg]

\* only tree marks a ref
parse_github_url_treeonly(url) ==
  LET parts == NonEmpty(Split(UrlPath(url))) IN
  IF UrlNetloc(url) \notin {"github.com", "www.github.com"}
  THEN InstallError("Only GitHub URLs are supported.")
  ELSE IF Len(parts) < 2 THEN InstallError("Invalid GitHub URL.")
  ELSE IF Len(parts) > 2 /\ parts[3] = "tree" /\ Len(parts) < 4
  THEN InstallError("GitHub URL missing ref or path.")
  ELSE
    LET tree == Len(parts) > 2 /\ parts[3] = "tree"
        ref == IF tree THEN parts[4] ELSE DEFAULT_REF
        subpath == IF tree THEN Join(SubSeq(parts, 5, Len(parts)))
                   ELSE Join(SubSeq(parts, 3, Len(parts)))
        skill_name == IF subpath # << >> THEN Last(Split(RStripSlash(subpath)))
                      ELSE parts[2]
    IN Source(parts[1], parts[2], ref, subpath, skill_name)

\* install_skill 233-234 with parse_github_url 39-70
parse_github_url(url) ==
  LET parts == NonEmpty(Split(UrlPath(url))) IN
  IF UrlNetloc(url) \notin {"github.com", "www.github.com"}
  THEN InstallError("Only GitHub URLs are supported.")
  ELSE IF Len(parts) < 2 THEN InstallError("Invalid GitHub URL.")
  ELSE IF Len(parts) > 2 /\ parts[3] \in {"tree", "blob"} /\ Len(parts) < 4
  THEN InstallError("GitHub URL missing ref or path.")
  ELSE
    LET tree == Len(parts) > 2 /\ parts[3] \in {"tree", "blob"}
        ref == IF tree THEN parts[4] ELSE DEFAULT_REF
        subpath == IF tree THEN Join(SubSeq(parts, 5, Len(parts)))
                   ELSE Join(SubSeq(parts, 3, Len(parts)))
        skill_name == IF subpath # << >> THEN Last(Split(RStripSlash(subpath)))
                      ELSE parts[2]
    IN Source(parts[1], parts[2], ref, subpath, skill_name)

\* the name is the first segment of the subpath
parse_shorthand_firstseg(shorthand) ==
  LET parts == Split(shorthand) IN
  IF Len(parts) < 2
  THEN InstallError("Invalid shorthand. Use: owner/repo[/path/to/skill]")
  ELSE Source(parts[1], parts[2], DEFAULT_REF,
              IF Len(parts) > 2 THEN Join(SubSeq(parts, 3, Len(parts))) ELSE << >>,
              IF Len(parts) > 2 THEN parts[3] ELSE parts[2])

\* a single segment is taken as the owner
parse_shorthand_lenient(shorthand) ==
  LET parts == Split(shorthand) IN
  IF Len(parts) < 2 THEN Source(parts[1], "", DEFAULT_REF, << >>, parts[1])
  ELSE Source(parts[1], parts[2], DEFAULT_REF,
              IF Len(parts) > 2 THEN Join(SubSeq(parts, 3, Len(parts))) ELSE << >>,
              IF Len(parts) > 2 THEN Last(parts) ELSE parts[2])

\* install_skill 236-237 with parse_shorthand 73-90
parse_shorthand(shorthand) ==
  LET parts == Split(shorthand) IN
  IF Len(parts) < 2
  THEN InstallError("Invalid shorthand. Use: owner/repo[/path/to/skill]")
  ELSE Source(parts[1], parts[2], DEFAULT_REF,
              IF Len(parts) > 2 THEN Join(SubSeq(parts, 3, Len(parts))) ELSE << >>,
              IF Len(parts) > 2 THEN Last(parts) ELSE parts[2])

(* ----------------------------- registry ------------------------------- *)

NoCmd == << >>

Agent(name, skills_path, local_skills_dir, builtin_install) ==
  [name |-> name, skills_path |-> skills_path,
   local_skills_dir |-> local_skills_dir, builtin_install |-> builtin_install]

\* the agent registry, in its order
REGISTRY ==
  << Agent("claude", <<"~", ".claude", "skills">>, <<".claude", "skills">>,
           <<"claude", "skill", "install">>),
     Agent("codex", <<"~", ".codex", "skills">>, <<".codex", "skills">>,
           <<"codex", "skill", "install">>),
     Agent("opencode", <<"~", ".config", "opencode", "skills">>, <<".opencode", "skills">>,
           NoCmd),
     Agent("cursor", <<"~", ".cursor", "skills">>, <<".cursor", "skills">>, NoCmd),
     Agent("windsurf", <<"~", ".windsurf", "skills">>, <<".windsurf", "skills">>, NoCmd),
     Agent("antigravity", <<"~", ".gemini", "antigravity", "skills">>,
           <<".agent", "skills">>, NoCmd) >>

Min(a, b) == IF a < b THEN a ELSE b

AGENTS == SubSeq(REGISTRY, 1, Min(NumAgents, Len(REGISTRY)))

AgentNames == {AGENTS[k].name : k \in 1..Len(AGENTS)}

AgentOf(name) == CHOOSE a \in {AGENTS[k] : k \in 1..Len(AGENTS)} : a.name = name

\* detect_all(): the agents of the registry found on the host, in registry order;
\* `present` is what the probes of detect_agent answer on this host
detect_all(present) == SelectSeq(AGENTS, LAMBDA a : a.name \in present)

(* ---------------------------- filesystem ------------------------------ *)
(* fs maps a path to the node at it: a file with its data, a symlink with  *)
(* its target, or a directory.  The ancestors of a path that holds a node  *)
(* are directories.                                                        *)

File(data) == [kind |-> "file", data |-> data]
Symlink(to) == [kind |-> "symlink", to |-> to]
Dir == [kind |-> "dir"]

\* q is p or lies below p
Under(p, q) == Len(q) >= Len(p) /\ SubSeq(q, 1, Len(p)) = p

Below(f, p) == {q \in DOMAIN f : Under(p, q)}

\* something is at p, not following a symlink at p
LExists(f, p) == Below(f, p) # {}

IsSymlink(f, p) == p \in DOMAIN f /\ f[p].kind = "symlink"

\* Path.resolve() of a path whose last component may be a symlink
Resolve(f, p) == IF IsSymlink(f, p) THEN f[p].to ELSE p

\* Path.exists(): follows symlinks, so a dangling symlink does not exist
Exists(f, p) == LExists(f, Resolve(f, p)) /\ ~IsSymlink(f, Resolve(f, p))

IsFile(f, p) == LET r == Resolve(f, p) IN r \in DOMAIN f /\ f[r].kind = "file"

IsDir(f, p) == Exists(f, p) /\ ~IsFile(f, p)

Restrict(f, S) == [q \in S |-> f[q]]

\* the tree below p, by relative path
TreeAt(f, p) ==
  LET r == Resolve(f, p)
      rel == {SubSeq(q, Len(r) + 1, Len(q)) : q \in Below(f, r) \ {r}}
  IN [s \in rel |-> f[r \o s]]

\* Path.mkdir(parents=True, exist_ok=True) on a path that is a directory or absent
Mkdir(f, p) == IF Exists(f, p) THEN f ELSE (p :> Dir) @@ f

\* shutil.copytree(src, dest, dirs_exist_ok=True): the tree is merged over
\* what dest holds, through dest when dest is a symlink to a directory
CopyTree(f, tree, p) ==
  LET r == Resolve(f, p)
      new == {r \o s : s \in DOMAIN tree}
  IN [q \in DOMAIN f \cup new |->
        IF q \in new THEN tree[SubSeq(q, Len(r) + 1, Len(q))] ELSE f[q]]

\* shutil.rmtree(p) on a real directory
RmTree(f, p) == Restrict(f, DOMAIN f \ Below(f, p))

\* Path.unlink()
Unlink(f, p) == Restrict(f, DOMAIN f \ {p})

\* Path.symlink_to(target) on an absent path
SymlinkTo(f, p, target) == (p :> Symlink(target)) @@ f

\* Path(source_str): empty and "." components are dropped
PathOf(s) ==
  LET parts == SelectSeq(Split(s), LAMBDA c : c # "" /\ c # ".") IN
  IF Len(s) > 0 /\ s[1] = SLASH THEN <<SLASH>> \o parts ELSE <<"cwd">> \o parts

\* Path.name
PathName(p) == IF Len(p) <= 1 THEN "" ELSE Last(p)

\* path / name
Child(p, name) == IF name = "" THEN p ELSE p \o <<name>>

(* ------------------------------ inputs -------------------------------- *)

\* an existing local directory (named as ./my-skill, which has the shape of
\* owner/repo too), a shorthand, a URL with a tree/<ref>/<subpath> tail, and
\* a string that is neither a path nor owner/repo
SRC_LOCAL == <<".", "/", "my-skill">>
SRC_SHORT == <<"acme", "/", "my-skill">>
SRC_URL ==
  <<"https:", "/", "/", "github.com", "/", "acme", "/", "kit", "/", "tree", "/", "v1",
    "/", "my-skill">>
SRC_BAD == <<"nowhere">>
\* a URL of another host
SRC_BADURL == <<"https:", "/", "/", "gitlab.com", "/", "acme", "/", "kit">>

SourceStrings == {SRC_LOCAL, SRC_SHORT, SRC_URL, SRC_BAD, SRC_BADURL}

\* a relative string that names the project-local destination of the first
\* agent of the registry
SRC_NESTED == <<".claude", "/", "skills", "/", "my-skill">>

\* source strings that name a destination of the run
SharedSources == {SRC_NESTED}

\* --agents, after main's split(",")
Selectors == {<<"all">>, <<"opencode">>}

Methods == {"auto", "builtin", "git", "download"}

InstallArgs ==
  [cmd : {"install"}, source_str : SourceStrings \cup SharedSources, agents : Selectors,
   symlink : BOOLEAN, method : Methods, local : BOOLEAN]

UninstallArgs ==
  [cmd : {"uninstall"}, skill_name : {"my-skill"}, agents : Selectors]

NoArgs == [cmd |-> "none"]

\* what the remote repository holds at the skill's subpath, and the metadata
\* directory a clone has at its root
SkillTree == (<<"SKILL.md">> :> File("repo"))
GitTree == (<<".git">> :> Dir) @@ (<<".git", "HEAD">> :> File("repo"))

\* what may be at a destination before the session starts
PreKinds == {"none", "dir", "file", "symlink", "dangling"}

PreTree(kind, p) ==
  CASE kind = "dir" -> (p \o <<"SKILL.md">> :> File("old")) @@ (p \o <<"notes">> :> File("old"))
    [] kind = "file" -> (p :> File("old"))
    [] kind = "symlink" -> (p :> Symlink(PathOf(SRC_LOCAL)))
    [] kind = "dangling" -> (p :> Symlink(<<"gone">>))
    [] OTHER -> << >>

(* ------------------------------- state -------------------------------- *)

VARIABLES
  fs,             \* the filesystem
  present,        \* the agents the probes of detect_agent find on this host
  cmdline,        \* the install and uninstall commands of this session, once given
  pc,             \* where the running command is
  argv,           \* the arguments of the running (or last) command
  source,         \* install_skill: source
  skill_name,     \* install_skill / uninstall_skill: skill_name
  target_agents,  \* the names of target_agents, in dict order
  i,              \* the loop's position in target_agents
  success,        \* install_skill: success
  method_used,    \* install_skill: method_used
  results,        \* the results dict of the running (or last) command
  outcome,        \* how the last command ended: "returned" or the exception's class
  error_msg,      \* the message of the InstallError main caught
  exit_code,      \* the exit status of the last command
  tmpdirs,        \* the temporary directories that exist
  calls,          \* the strategy functions called by the running (or last) command
  fs0,            \* the filesystem when the running (or last) command started
  prev,           \* the install before this command and what it reported installed
  ops,            \* how many commands were started
  budget,         \* how many commands the session may start
  selectors,      \* the --agents values the session's commands use
  sources,        \* the source strings the session's installs use
  answer          \* what the last external call of the running (or last) command did

locals == <<source, skill_name, target_agents, i, success, method_used>>
vars == <<fs, present, cmdline, pc, argv, source, skill_name, target_agents, i, success,
          method_used, results, outcome, error_msg, exit_code, tmpdirs, calls, fs0, prev,
          ops, budget, selectors, sources, answer>>

NoResults == [none |-> TRUE]
\* the command has made no external call
NoAnswer == "none"
\* no exit status: the command is running, or none ran
NoExit == "none"
InstallResults0 == [installed |-> << >>, failed |-> << >>, skipped |-> << >>]
UninstallResults0 == [removed |-> << >>, not_found |-> << >>]

\* the command before, when it was an install that returned its report: its
\* arguments and the entries the report listed as installed
Summary(a, r, o) ==
  IF a.cmd = "install" /\ o = "returned"
  THEN [argv |-> a, installed |-> r.installed]
  ELSE [argv |-> NoArgs, installed |-> << >>]

\* install_skill 257-261 and uninstall_skill 52: the destination of one agent
Dest(agent, local, name) ==
  IF local THEN Child(<<"cwd">> \o agent.local_skills_dir, name)
  ELSE Child(agent.skills_path, name)

dest == Dest(AgentOf(target_agents[i]), argv.local, skill_name)

local_path == PathOf(argv.source_str)

\* the local skill directory, and what the first detected agent's skills
\* directory (and its project-local one too when `local`) may hold under the
\* skill's name
InitFs(pr, pre, local) ==
  LET det == detect_all(pr)
      src == (PathOf(SRC_LOCAL) \o <<"SKILL.md">> :> File("local"))
  IN IF Len(det) = 0 THEN src
     ELSE PreTree(pre, Dest(det[1], FALSE, "my-skill"))
          @@ (IF local THEN PreTree(pre, Dest(det[1], TRUE, "my-skill")) ELSE << >>)
          @@ src

\* the state before any command: at most `b` commands will run, on a host
\* where the first agent's destination holds one of `pres`
InitWith(pres, roots, b, sels, cap, srcs) ==
  /\ present \in {S \in SUBSET AgentNames : Cardinality(S) <= cap}
  /\ \E pre \in pres, local \in roots : fs = InitFs(present, pre, local)
  /\ budget = b
  /\ selectors = sels
  /\ sources = srcs
  /\ answer = NoAnswer
  /\ cmdline = [install |-> NoArgs, uninstall |-> NoArgs]
  /\ pc = "idle"
  /\ argv = NoArgs
  /\ source = None
  /\ skill_name = ""
  /\ target_agents = << >>
  /\ i = 0
  /\ success = FALSE
  /\ method_used = "None"
  /\ results = NoResults
  /\ outcome = "none"
  /\ error_msg = ""
  /\ exit_code = NoExit
  /\ tmpdirs = 0
  /\ calls = << >>
  /\ fs0 = fs
  /\ prev = Summary(NoArgs, NoResults, "none")
  /\ ops = 0

\* one command, on a host where the first agent's destination may be taken
Init == InitWith(PreKinds, {TRUE}, 1, Selectors, MaxDetected, SourceStrings)

\* a session of up to MaxOps commands for all detected agents, on a host
\* with no skill installed
InitSession == InitWith({"none"}, {FALSE}, MaxOps, {<<"all">>}, SessionAgents, SourceStrings)

ResetLocals ==
  /\ source' = None
  /\ skill_name' = ""
  /\ target_agents' = << >>
  /\ i' = 0
  /\ success' = FALSE
  /\ method_used' = "None"

\* the command ends with an exception nothing catches: the interpreter
\* prints the traceback and exits with status 1; no report is printed
Crash(exc) ==
  /\ pc' = "idle"
  /\ outcome' = exc
  /\ exit_code' = 1
  /\ ResetLocals

(* ---------------------------- install.py ------------------------------ *)

\* the shape of the string decides first, the path only when no parser takes it
ParseSource_shapefirst(f, source_str) ==
  LET r == IF StartsWithHttp(source_str) THEN parse_github_url(source_str)
           ELSE parse_shorthand(source_str)
  IN IF r.tag = "Source" THEN [source |-> r, skill_name |-> r.skill_name, error |-> ""]
     ELSE IF Exists(f, PathOf(source_str))
     THEN [source |-> None, skill_name |-> PathName(PathOf(source_str)), error |-> ""]
     ELSE [source |-> None, skill_name |-> "", error |-> r.msg]

\* install_skill 228-238
ParseSource(f, source_str) ==
  IF Exists(f, PathOf(source_str))
  THEN [source |-> None, skill_name |-> PathName(PathOf(source_str)), error |-> ""]
  ELSE LET r == IF StartsWithHttp(source_str) THEN parse_github_url(source_str)
                ELSE parse_shorthand(source_str)
       IN IF r.tag = "InstallError"
          THEN [source |-> None, skill_name |-> "", error |-> r.msg]
          ELSE [source |-> r, skill_name |-> r.skill_name, error |-> ""]

\* the selected agents in the opposite order
FilterAgents_reversed(detected, agents) ==
  LET names == [k \in 1..Len(detected) |-> detected[Len(detected) + 1 - k].name] IN
  IF Len(agents) > 0 /\ agents # <<"all">>
  THEN SelectSeq(names, LAMBDA n : \E k \in 1..Len(agents) : agents[k] = n)
  ELSE names

\* install_skill 247-252 and uninstall_skill 46-49: the names of the detected
\* agents the selector keeps, in detection order
FilterAgents(detected, agents) ==
  LET names == [k \in 1..Len(detected) |-> detected[k].name] IN
  IF Len(agents) > 0 /\ agents # <<"all">>
  THEN SelectSeq(names, LAMBDA n : \E k \in 1..Len(agents) : agents[k] = n)
  ELSE names

\* the selector is never checked against the detected agents
FatalError_anyselector(f, pr, a) ==
  LET p == ParseSource(f, a.source_str) IN
  IF p.error # "" THEN p.error
  ELSE IF Len(detect_all(pr)) = 0 THEN "No AI agents detected on this system."
  ELSE ""

\* install_skill 226-252: the error that ends the command before the loop, or ""
FatalError(f, pr, a) ==
  LET p == ParseSource(f, a.source_str) IN
  IF p.error # "" THEN p.error
  ELSE IF Len(detect_all(pr)) = 0 THEN "No AI agents detected on this system."
  ELSE IF Len(a.agents) > 0 /\ a.agents # <<"all">>
          /\ Len(FilterAgents(detect_all(pr), a.agents)) = 0
  THEN "None of the specified agents found"
  ELSE ""

\* main 325-331 with install_skill 226-252
InstallStart ==
  /\ pc = "idle"
  /\ ops < budget
  /\ ops' = ops + 1
  /\ prev' = Summary(argv, results, outcome)
  /\ \E a \in InstallArgs :
       /\ a.agents \in selectors
       /\ a.source_str \in sources
       /\ cmdline.install \in {NoArgs, a}
       /\ cmdline' = [cmdline EXCEPT !.install = a]
  /\ argv' = cmdline'.install
  /\ fs0' = fs
  /\ calls' = << >>
  /\ answer' = NoAnswer
  /\ LET err == FatalError(fs, present, argv')
         p == ParseSource(fs, argv'.source_str)
     IN IF err # ""
        THEN /\ pc' = "idle"
             /\ outcome' = "InstallError"
             /\ error_msg' = err
             /\ exit_code' = 1
             /\ results' = NoResults
             /\ ResetLocals
        ELSE /\ pc' = "loop"
             /\ outcome' = "running"
             /\ error_msg' = ""
             /\ results' = InstallResults0
             /\ source' = p.source
             /\ skill_name' = p.skill_name
             /\ target_agents' = FilterAgents(detect_all(present), argv'.agents)
             /\ i' = 1
             /\ success' = FALSE
             /\ method_used' = "None"
             /\ exit_code' = NoExit
  /\ UNCHANGED <<fs, present, tmpdirs, budget, selectors, sources>>

\* any failed target makes the command fail
InstallExitCode_anyfailed(r) == IF Len(r.failed) > 0 THEN 1 ELSE 0

\* main 352
InstallExitCode(r) == IF Len(r.failed) > 0 /\ Len(r.installed) = 0 THEN 1 ELSE 0

\* install_skill 255, 311 and main 352: the loop is over
InstallReturn ==
  /\ pc = "loop"
  /\ i > Len(target_agents)
  /\ pc' = "idle"
  /\ outcome' = "returned"
  /\ exit_code' = InstallExitCode(results)
  /\ ResetLocals
  /\ UNCHANGED <<fs, present, cmdline, argv, results, error_msg, tmpdirs, calls, fs0, prev,
                 ops, budget, selectors, sources, answer>>

\* the flag read the wrong way round
AlreadyExists_flag(f, d, symlink) == Exists(f, d) /\ symlink

\* install_skill 263: the destination is there and --symlink was not given
AlreadyExists(f, d, symlink) == Exists(f, d) /\ ~symlink

\* install_skill 263-269
SkipExisting ==
  /\ pc = "loop"
  /\ i <= Len(target_agents)
  /\ AlreadyExists(fs, dest, argv.symlink)
  /\ results' = [results EXCEPT !.skipped =
                   Append(@, [agent |-> target_agents[i], reason |-> "Already exists",
                              path |-> dest])]
  /\ i' = i + 1
  /\ UNCHANGED <<fs, present, cmdline, pc, argv, source, skill_name, target_agents, success,
                 method_used, outcome, error_msg, exit_code, tmpdirs, calls, fs0, prev,
                 ops, budget, selectors, sources, answer>>

\* install_skill 271-280: which branch handles the target
Branch(f, lp, src) ==
  IF Exists(f, lp) THEN "local" ELSE IF src # None THEN "builtin" ELSE "record"

\* install_skill 263, 271-280
BeginTarget ==
  /\ pc = "loop"
  /\ i <= Len(target_agents)
  /\ ~AlreadyExists(fs, dest, argv.symlink)
  /\ success' = FALSE
  /\ method_used' = "None"
  /\ pc' = Branch(fs, local_path, source)
  /\ UNCHANGED <<fs, present, cmdline, argv, source, skill_name, target_agents, i, results,
                 outcome, error_msg, exit_code, tmpdirs, calls, fs0, prev,
                 ops, budget, selectors, sources, answer>>

\* the call log: which function was called for which agent, and how the call
\* ended ("True", "False", "raised", or "pending" while it runs)
Call(agent, fn, ret) == [agent |-> agent, fn |-> fn, ret |-> ret]

Ended(result, exc) == IF exc # "" THEN "raised" ELSE IF result THEN "True" ELSE "False"

SetLast(log, ret) == [log EXCEPT ![Len(log)].ret = ret]

\* what a strategy hands back: the filesystem it leaves, the value it returns
\* and the exception that leaves it ("" when it returns)
Ret(f, result) == [fs |-> f, result |-> result, exc |-> ""]
Raise(f, exc) == [fs |-> f, result |-> FALSE, exc |-> exc]

\* install_local 207-210: local_path is resolved after dest was cleared
install_local_symlink(f, lp, d) ==
  IF Exists(f, d)
  THEN IF IsSymlink(f, d)
       THEN Ret(SymlinkTo(Unlink(f, d), d, Resolve(Unlink(f, d), lp)), TRUE)
       ELSE IF IsFile(f, d) THEN Raise(f, "NotADirectoryError")
       ELSE Ret(SymlinkTo(RmTree(f, d), d, Resolve(RmTree(f, d), lp)), TRUE)
  ELSE IF LExists(f, d) THEN Raise(f, "FileExistsError")
  ELSE Ret(SymlinkTo(f, d, Resolve(f, lp)), TRUE)

\* reports success without writing the destination
MkdirCopy_dry(f, tree, d) == Ret(f, TRUE)

\* dest.mkdir(parents=True, exist_ok=True); shutil.copytree(src, dest, dirs_exist_ok=True)
MkdirCopy(f, tree, d) ==
  IF LExists(f, d) /\ ~IsDir(f, d) THEN Raise(f, "FileExistsError")
  ELSE Ret(CopyTree(Mkdir(f, d), tree, d), TRUE)

\* makes the destination directory and copies nothing into it
install_local_copy_empty(f, lp, d) == Ret(Mkdir(f, d), TRUE)

\* install_local 211-213
install_local_copy(f, lp, d) ==
  IF LExists(f, d) /\ ~IsDir(f, d) THEN Raise(f, "FileExistsError")
  ELSE IF IsFile(f, lp) THEN Raise(Mkdir(f, d), "NotADirectoryError")
  ELSE MkdirCopy(f, TreeAt(f, lp), d)

\* install_local 200-215
install_local(f, lp, d, symlink) ==
  IF ~Exists(f, lp) THEN Ret(f, FALSE)
  ELSE IF symlink THEN install_local_symlink(f, lp, d)
  ELSE install_local_copy(f, lp, d)

\* install_skill 275-277
TryLocal ==
  /\ pc = "local"
  /\ LET r == install_local(fs, local_path, dest, argv.symlink) IN
     /\ calls' = Append(calls, Call(target_agents[i], "install_local", Ended(r.result, r.exc)))
     /\ fs' = r.fs
     /\ IF r.exc # ""
        THEN /\ Crash(r.exc)
             /\ UNCHANGED <<results>>
        ELSE /\ success' = r.result
             /\ method_used' = IF argv.symlink THEN "symlink" ELSE "copy"
             /\ pc' = "record"
             /\ UNCHANGED <<source, skill_name, target_agents, i, results, outcome, exit_code>>
  /\ UNCHANGED <<present, cmdline, argv, error_msg, tmpdirs, fs0, prev,
                 ops, budget, selectors, sources, answer>>

\* what the agent's own command does when it is run
BuiltinRuns == {"exit0", "nonzero", "timeout", "notfound"}

\* install_builtin 116-120
install_builtin(run) == run = "exit0"

\* install_skill 282
BuiltinEnabled(method, agent) ==
  method \in {"auto", "builtin"} /\ agent.builtin_install # NoCmd

\* the sparse checkout runs even after a success
GitEnabled_always(ok, method) == method \in {"auto", "git"}

\* install_skill 288
GitEnabled(ok, method) == ~ok /\ method \in {"auto", "git"}

\* the download runs whatever the mode
DownloadEnabled_any(ok, method) == ~ok

\* the download runs whether or not an earlier strategy succeeded
DownloadEnabled_unguarded(ok, method) == method \in {"auto", "download"}

\* install_skill 294
DownloadEnabled(ok, method) == ~ok /\ method \in {"auto", "download"}

\* the agent's own installer owns placement: it puts the skill under the
\* agent's skills_path (`placed`), or somewhere this model does not follow
ToolPlaces(f, agent, name, placed) ==
  LET d == Child(agent.skills_path, name) IN
  IF placed /\ ~LExists(f, d) THEN CopyTree(Mkdir(f, d), SkillTree, d) ELSE f

\* install_skill 282-285
TryBuiltin ==
  /\ pc = "builtin"
  /\ BuiltinEnabled(argv.method, AgentOf(target_agents[i]))
  /\ \E run \in BuiltinRuns, placed \in BOOLEAN :
       /\ answer' = run
       /\ calls' = Append(calls, Call(target_agents[i], "install_builtin",
                                      Ended(install_builtin(run), "")))
       /\ success' = install_builtin(run)
       /\ method_used' = IF install_builtin(run) THEN "builtin" ELSE method_used
       /\ fs' = IF install_builtin(run)
                THEN ToolPlaces(fs, AgentOf(target_agents[i]), skill_name, placed)
                ELSE fs
  /\ pc' = "git"
  /\ UNCHANGED <<present, cmdline, argv, source, skill_name, target_agents, i, results,
                 outcome, error_msg, exit_code, tmpdirs, fs0, prev,
                 ops, budget, selectors, sources>>

\* install_skill 282: the condition is false
SkipBuiltin ==
  /\ pc = "builtin"
  /\ ~BuiltinEnabled(argv.method, AgentOf(target_agents[i]))
  /\ pc' = "git"
  /\ UNCHANGED <<fs, present, cmdline, argv, source, skill_name, target_agents, i, success,
                 method_used, results, outcome, error_msg, exit_code, tmpdirs, calls, fs0,
                 prev, ops, budget, selectors, sources, answer>>

\* what happens up to the end of git clone
CloneRuns == {"nogit", "clone_failed", "clone_timeout", "cloned"}

\* a clone that exits non-zero returns without removing the temporary directory
install_git_sparse_clone_leak(run) ==
  CASE run = "nogit" -> [next |-> "return", exc |-> "", tmp |-> 0]
    [] run = "clone_failed" -> [next |-> "return", exc |-> "", tmp |-> 1]
    [] run = "clone_timeout" -> [next |-> "raise", exc |-> "TimeoutExpired", tmp |-> 0]
    [] OTHER -> [next |-> "go on", exc |-> "", tmp |-> 1]

\* install_git_sparse 125-147: "go on", the value returned, or the exception
install_git_sparse_clone(run) ==
  CASE run = "nogit" -> [next |-> "return", exc |-> "", tmp |-> 0]
    [] run = "clone_failed" -> [next |-> "return", exc |-> "", tmp |-> 0]
    [] run = "clone_timeout" -> [next |-> "raise", exc |-> "TimeoutExpired", tmp |-> 0]
    [] OTHER -> [next |-> "go on", exc |-> "", tmp |-> 1]

\* install_skill 288-289, install_git_sparse 125-147
GitClone ==
  /\ pc = "git"
  /\ GitEnabled(success, argv.method)
  /\ \E run \in CloneRuns :
       LET r == install_git_sparse_clone(run) IN
       /\ answer' = run
       /\ calls' = Append(calls, Call(target_agents[i], "install_git_sparse",
                                      IF r.next = "go on" THEN "pending"
                                      ELSE Ended(FALSE, r.exc)))
       /\ tmpdirs' = tmpdirs + r.tmp
       /\ IF r.next = "raise"
          THEN Crash(r.exc)
          ELSE /\ pc' = IF r.next = "go on" THEN "git_copy" ELSE "download"
               /\ success' = FALSE
               /\ UNCHANGED <<source, skill_name, target_agents, i, method_used, outcome,
                              exit_code>>
  /\ UNCHANGED <<fs, present, cmdline, argv, results, error_msg, fs0, prev,
                 ops, budget, selectors, sources>>

\* install_skill 288: the condition is false
SkipGit ==
  /\ pc = "git"
  /\ ~GitEnabled(success, argv.method)
  /\ pc' = "download"
  /\ UNCHANGED <<fs, present, cmdline, argv, source, skill_name, target_agents, i, success,
                 method_used, results, outcome, error_msg, exit_code, tmpdirs, calls, fs0,
                 prev, ops, budget, selectors, sources, answer>>

\* what happens after the clone: the sparse-checkout command fails, the
\* subpath is not in the checkout, or it is
CheckoutRuns == {"sparse_failed", "missing", "found"}

\* the runs a source allows: without a subpath no sparse-checkout command runs
\* and src_path is the clone itself
CheckoutRunsOf(src) == IF src.path # << >> THEN CheckoutRuns ELSE {"found"}

\* install_git_sparse 162-165
StripGit(f, d) ==
  IF Exists(f, Resolve(f, d) \o <<".git">>) THEN RmTree(f, Resolve(f, d) \o <<".git">>) ELSE f

\* install_git_sparse 150-167, after the clone
install_git_sparse_copy(f, src, d, run) ==
  IF run = "sparse_failed" THEN Raise(f, "CalledProcessError")
  ELSE IF run = "missing" THEN Ret(f, FALSE)
  ELSE LET tree == IF src.path # << >> THEN SkillTree ELSE SkillTree @@ GitTree
           r == MkdirCopy(f, tree, d)
       IN IF r.exc # "" THEN r ELSE Ret(StripGit(r.fs, d), TRUE)

\* install_skill 289-291, install_git_sparse 150-167; leaving the with block
\* removes the temporary directory
GitCopy ==
  /\ pc = "git_copy"
  /\ tmpdirs' = tmpdirs - 1
  /\ \E run \in CheckoutRunsOf(source) :
       LET r == install_git_sparse_copy(fs, source, dest, run) IN
       /\ answer' = run
       /\ calls' = SetLast(calls, Ended(r.result, r.exc))
       /\ fs' = r.fs
       /\ IF r.exc # ""
          THEN Crash(r.exc)
          ELSE /\ success' = r.result
               /\ method_used' = IF r.result THEN "git" ELSE method_used
               /\ pc' = "download"
               /\ UNCHANGED <<source, skill_name, target_agents, i, outcome, exit_code>>
  /\ UNCHANGED <<present, cmdline, argv, results, error_msg, fs0, prev,
                 ops, budget, selectors, sources>>

\* what the archive request does: an HTTP status of 400 or more, no answer
\* at all (no network, timeout), or a payload
FetchRuns == {"http_error", "url_error", "fetched"}

\* an HTTP error status is passed on as urlopen raised it
github_request_unconverted(run) ==
  CASE run = "http_error" -> "HTTPError"
    [] run = "url_error" -> "URLError"
    [] OTHER -> ""

\* github_request 101-105: urlopen raises HTTPError, which becomes
\* InstallError, or URLError, which nothing here catches
github_request(run) ==
  CASE run = "http_error" -> "InstallError"
    [] run = "url_error" -> "URLError"
    [] OTHER -> ""

\* install_download 172-177: "go on", the value returned, or the exception
install_download_fetch(run) ==
  LET e == github_request(run) IN
  IF e = "InstallError" THEN [next |-> "return", exc |-> "", tmp |-> 0]
  ELSE IF e # "" THEN [next |-> "raise", exc |-> e, tmp |-> 0]
  ELSE [next |-> "go on", exc |-> "", tmp |-> 1]

\* install_skill 294-295, install_download 172-177
Download ==
  /\ pc = "download"
  /\ DownloadEnabled(success, argv.method)
  /\ \E run \in FetchRuns :
       LET r == install_download_fetch(run) IN
       /\ answer' = run
       /\ calls' = Append(calls, Call(target_agents[i], "install_download",
                                      IF r.next = "go on" THEN "pending"
                                      ELSE Ended(FALSE, r.exc)))
       /\ tmpdirs' = tmpdirs + r.tmp
       /\ IF r.next = "raise"
          THEN Crash(r.exc)
          ELSE /\ pc' = IF r.next = "go on" THEN "extract" ELSE "record"
               /\ UNCHANGED <<source, skill_name, target_agents, i, success, method_used,
                              outcome, exit_code>>
  /\ UNCHANGED <<fs, present, cmdline, argv, results, error_msg, fs0, prev,
                 ops, budget, selectors, sources>>

\* install_skill 294: the condition is false
SkipDownload ==
  /\ pc = "download"
  /\ ~DownloadEnabled(success, argv.method)
  /\ pc' = "record"
  /\ UNCHANGED <<fs, present, cmdline, argv, source, skill_name, target_agents, i, success,
                 method_used, results, outcome, error_msg, exit_code, tmpdirs, calls, fs0,
                 prev, ops, budget, selectors, sources, answer>>

\* what the payload turns out to be: no zip archive, an archive without a
\* <repo>-* folder, one without the subpath, or one with it
ExtractRuns == {"bad_zip", "no_folder", "missing", "found"}

ExtractRunsOf(src) == IF src.path # << >> THEN ExtractRuns ELSE ExtractRuns \ {"missing"}

\* install_download 179-197, after the request
install_download_extract(f, src, d, run) ==
  IF run = "bad_zip" THEN Raise(f, "BadZipFile")
  ELSE IF run \in {"no_folder", "missing"} THEN Ret(f, FALSE)
  ELSE MkdirCopy(f, SkillTree, d)

\* install_skill 295-297, install_download 179-197; leaving the with block
\* removes the temporary directory
Extract ==
  /\ pc = "extract"
  /\ tmpdirs' = tmpdirs - 1
  /\ \E run \in ExtractRunsOf(source) :
       LET r == install_download_extract(fs, source, dest, run) IN
       /\ answer' = run
       /\ calls' = SetLast(calls, Ended(r.result, r.exc))
       /\ fs' = r.fs
       /\ IF r.exc # ""
          THEN Crash(r.exc)
          ELSE /\ success' = r.result
               /\ method_used' = IF r.result THEN "download" ELSE method_used
               /\ pc' = "record"
               /\ UNCHANGED <<source, skill_name, target_agents, i, outcome, exit_code>>
  /\ UNCHANGED <<present, cmdline, argv, results, error_msg, fs0, prev,
                 ops, budget, selectors, sources>>

\* install_skill 299-309: the entry appended, and the list it goes to
Outcome(ok, agent, d, method) ==
  IF ok THEN [list |-> "installed", entry |-> [agent |-> agent, path |-> d, method |-> method]]
  ELSE [list |-> "failed", entry |-> [agent |-> agent, path |-> d]]

\* install_skill 299-309
Record ==
  /\ pc = "record"
  /\ LET o == Outcome(success, target_agents[i], dest, method_used) IN
     results' = [results EXCEPT ![o.list] = Append(@, o.entry)]
  /\ i' = i + 1
  /\ pc' = "loop"
  /\ UNCHANGED <<fs, present, cmdline, argv, source, skill_name, target_agents, success,
                 method_used, outcome, error_msg, exit_code, tmpdirs, calls, fs0, prev,
                 ops, budget, selectors, sources, answer>>

(* --------------------------- uninstall.py ----------------------------- *)

\* what the agent's own remove command does when it is run
RemoveRuns == {"exit0", "nonzero", "timeout", "notfound"}

\* uninstall_builtin 16-30
uninstall_builtin(agent, run) == agent.builtin_install # NoCmd /\ run = "exit0"

\* the agent's own remover deletes the skill under skills_path (`gone`), or
\* one it keeps somewhere this model does not follow
ToolRemoves(f, d, gone) == IF gone /\ LExists(f, d) THEN RmTree(f, d) ELSE f

\* removes the skill wherever a path names it
RemoveFile_byname(f, p) ==
  Ret(Restrict(f, {q \in DOMAIN f : \A k \in DOMAIN q : q[k] # Last(p)}), TRUE)

\* uninstall_skill 63-69
RemoveFile(f, p) ==
  IF IsSymlink(f, p) THEN Ret(Unlink(f, p), TRUE)
  ELSE IF IsFile(f, p) THEN Raise(f, "NotADirectoryError")
  ELSE Ret(RmTree(f, p), TRUE)

\* uninstall main 94-95 with uninstall_skill 38-49
UninstallStart ==
  /\ pc = "idle"
  /\ answer' = NoAnswer
  /\ ops < budget
  /\ ops' = ops + 1
  /\ prev' = Summary(argv, results, outcome)
  /\ \E a \in UninstallArgs :
       /\ a.agents \in selectors
       /\ cmdline.uninstall \in {NoArgs, a}
       /\ cmdline' = [cmdline EXCEPT !.uninstall = a]
       /\ argv' = a
       /\ skill_name' = a.skill_name
       /\ target_agents' = IF Len(detect_all(present)) = 0 THEN << >>
                           ELSE FilterAgents(detect_all(present), a.agents)
  /\ fs0' = fs
  /\ calls' = << >>
  /\ results' = UninstallResults0
  /\ outcome' = "running"
  /\ error_msg' = ""
  /\ i' = 1
  /\ pc' = "uloop"
  /\ exit_code' = NoExit
  /\ UNCHANGED <<fs, present, source, success, method_used, tmpdirs, budget, selectors, sources>>

\* uninstall_skill 51-81: one target
UninstallTarget ==
  /\ pc = "uloop"
  /\ i <= Len(target_agents)
  /\ LET agent == AgentOf(target_agents[i])
         skill_path == Child(agent.skills_path, skill_name)
     IN \E run \in RemoveRuns, gone \in BOOLEAN :
          LET native == uninstall_builtin(agent, run)
              f1 == IF native THEN ToolRemoves(fs, skill_path, gone) ELSE fs
              r == IF ~native /\ Exists(f1, skill_path) THEN RemoveFile(f1, skill_path)
                   ELSE Ret(f1, FALSE)
          IN /\ agent.builtin_install = NoCmd => (run = "exit0" /\ gone)
             /\ calls' = IF agent.builtin_install # NoCmd
                         THEN Append(calls, Call(agent.name, "uninstall_builtin",
                                                 Ended(native, "")))
                         ELSE calls
             /\ fs' = r.fs
             /\ IF r.exc # ""
                THEN /\ Crash(r.exc)
                     /\ UNCHANGED results
                ELSE /\ results' =
                          IF native \/ r.result
                          THEN [results EXCEPT !.removed =
                                  Append(@, [agent |-> agent.name, path |-> skill_path,
                                             method |-> IF native THEN "builtin" ELSE "file"])]
                          ELSE [results EXCEPT !.not_found =
                                  Append(@, [agent |-> agent.name, path |-> skill_path])]
                     /\ i' = i + 1
                     /\ UNCHANGED <<pc, source, skill_name, target_agents, success,
                                    method_used, outcome, exit_code>>
  /\ UNCHANGED <<present, cmdline, argv, error_msg, tmpdirs, fs0, prev,
                 ops, budget, selectors, sources, answer>>

\* the command fails only when a target was not found
UninstallExitCode_notfound(r) == IF Len(r.not_found) > 0 THEN 1 ELSE 0

\* uninstall main 109
UninstallExitCode(r) == IF Len(r.removed) > 0 THEN 0 ELSE 1

\* uninstall_skill 83 and main 109
UninstallReturn ==
  /\ pc = "uloop"
  /\ i > Len(target_agents)
  /\ pc' = "idle"
  /\ outcome' = "returned"
  /\ exit_code' = UninstallExitCode(results)
  /\ ResetLocals
  /\ UNCHANGED <<fs, present, cmdline, argv, results, error_msg, tmpdirs, calls, fs0, prev,
                 ops, budget, selectors, sources, answer>>

(* --------------------------- specification ---------------------------- *)

Next ==
  \/ InstallStart
  \/ InstallReturn
  \/ SkipExisting
  \/ BeginTarget
  \/ TryLocal
  \/ TryBuiltin
  \/ SkipBuiltin
  \/ GitClone
  \/ SkipGit
  \/ GitCopy
  \/ Download
  \/ SkipDownload
  \/ Extract
  \/ Record
  \/ UninstallStart
  \/ UninstallTarget
  \/ UninstallReturn

Spec == Init /\ [][Next]_vars

\* one command with a source string that names a destination of the run, on
\* a host where the first agent's destinations may be taken
InitShared == InitWith(PreKinds, {TRUE}, 1, Selectors, MaxDetected, SharedSources)

SpecShared == InitShared /\ [][Next]_vars

SpecSession == InitSession /\ [][Next]_vars

\* main 327-331 and install_skill 255-311 have no handler for
\* KeyboardInterrupt: an interrupt that arrives while the loop runs ends the
\* command there; the with blocks passed on the way out remove their
\* temporary directory, the interpreter prints the traceback and the process
\* ends by SIGINT (status 130) without a report
Interrupt ==
  /\ argv.cmd = "install"
  /\ pc # "idle"
  /\ answer' = "interrupt"
  /\ tmpdirs' = 0
  /\ calls' = IF calls # << >> /\ calls[Len(calls)].ret = "pending"
              THEN SetLast(calls, "raised") ELSE calls
  /\ pc' = "idle"
  /\ outcome' = "KeyboardInterrupt"
  /\ exit_code' = 130
  /\ ResetLocals
  /\ UNCHANGED <<fs, present, cmdline, argv, results, error_msg, fs0, prev, ops, budget,
                 selectors, sources>>

\* the external calls that are given a timeout: subprocess.run of the agent's
\* command (117) and of git clone (145), and urlopen (102); the
\* subprocess.run of git sparse-checkout (152) is given none
TimedCalls == {"install_builtin", "git clone", "urlopen"}

\* install_git_sparse 150-152: git sparse-checkout stalls (a partial clone
\* fetches from the remote here); a call without a timeout never returns.
\* A stall of a timed call is the run that ends in its timeout.
Stall ==
  /\ pc = "git_copy"
  /\ source.path # << >>
  /\ "git sparse-checkout" \notin TimedCalls
  /\ pc' = "stalled"
  /\ answer' = "stalled"
  /\ UNCHANGED <<fs, present, cmdline, argv, source, skill_name, target_agents, i, success,
                 method_used, results, outcome, error_msg, exit_code, tmpdirs, calls, fs0, prev,
                 ops, budget, selectors, sources>>

NextDisturbed == Next \/ Interrupt \/ Stall

\* one command, which an interrupt may end and in which an external call
\* may stall, for all detected agents on a host where the first agent may
\* have the skill already
InitDisturbed ==
  InitWith({"none", "dir"}, {FALSE}, 1, {<<"all">>}, MaxDetected, SourceStrings)

SpecDisturbed == InitDisturbed /\ [][NextDisturbed]_vars

(* ----------------------------- the parser ------------------------------ *)

\* the segments source strings are made of; the empty one makes doubled,
\* leading and trailing slashes
Segments == {"", "a", "tree", "blob"}

SegLists == UNION {[1..n -> Segments] : n \in 0..MaxSegs}

Hosts == {"github.com", "www.github.com", "gitlab.com"}

\* the string of a shorthand, and of a URL, with the given segments
ShorthandOf(segs) == Join(segs)
UrlOf(host, segs) ==
  <<"https:", SLASH, SLASH, host>> \o (IF Len(segs) = 0 THEN << >> ELSE <<SLASH>> \o Join(segs))

ParseInputs ==
  {[cmd |-> "parse", form |-> "shorthand", host |-> "", segs |-> s,
    source_str |-> ShorthandOf(s)] : s \in SegLists \ {<< >>}}
  \cup {[cmd |-> "parse", form |-> "url", host |-> h, segs |-> s,
         source_str |-> UrlOf(h, s)] : h \in Hosts, s \in SegLists}

\* the root and the working directory are always there
BaseFs == (<<SLASH>> :> Dir) @@ (<<"cwd">> :> Dir)

\* a source string on the command line, on a host where it names an existing
\* path or where it does not
InitParse ==
  /\ argv \in ParseInputs
  /\ fs \in {BaseFs, (PathOf(argv.source_str) :> Dir) @@ BaseFs}
  /\ present = {}
  /\ budget = 0
  /\ selectors = {}
  /\ sources = {}
  /\ answer = NoAnswer
  /\ cmdline = [install |-> NoArgs, uninstall |-> NoArgs]
  /\ pc = "parse"
  /\ source = None
  /\ skill_name = ""
  /\ target_agents = << >>
  /\ i = 0
  /\ success = FALSE
  /\ method_used = "None"
  /\ results = NoResults
  /\ outcome = "none"
  /\ error_msg = ""
  /\ exit_code = NoExit
  /\ tmpdirs = 0
  /\ calls = << >>
  /\ fs0 = fs
  /\ prev = Summary(NoArgs, NoResults, "none")
  /\ ops = 0

\* install_skill 228-238: the source string is parsed
Parse ==
  /\ pc = "parse"
  /\ LET p == ParseSource(fs, argv.source_str) IN
     /\ source' = p.source
     /\ skill_name' = p.skill_name
     /\ error_msg' = p.error
     /\ outcome' = IF p.error # "" THEN "InstallError" ELSE "returned"
  /\ pc' = "parsed"
  /\ UNCHANGED <<fs, present, cmdline, argv, target_agents, i, success, method_used, results,
                 exit_code, tmpdirs, calls, fs0, prev, ops, budget, selectors, sources, answer>>

NextParse == Parse

SpecParse == InitParse /\ [][NextParse]_vars

(* ------------------------------ claims -------------------------------- *)

Range(seq) == {seq[k] : k \in DOMAIN seq}

\* an install that got past its fatal checks is running or has ended
InInstall == argv.cmd = "install" /\ results # NoResults

\* the selected targets of the command, and their destination
Selected == FilterAgents(detect_all(present), argv.agents)
NameAtStart == ParseSource(fs0, argv.source_str).skill_name
DestOf(n) == Dest(AgentOf(n), argv.local, NameAtStart)

\* the source was a repository source when the command started
RepoAtStart == ParseSource(fs0, argv.source_str).source # None

Listed(list, n) == \E k \in DOMAIN list : list[k].agent = n

CallsFor(n) == SelectSeq(calls, LAMBDA c : c.agent = n)

\* the loop has finished with target n
Processed(n) ==
  /\ InInstall
  /\ IF pc = "idle" THEN outcome = "returned" /\ n \in Range(Selected)
     ELSE \E k \in 1..(i - 1) : target_agents[k] = n

\* the tree at and below p
Content(f, p) == Restrict(f, Below(f, p))

\* C1: a target whose destination exists when the install starts, without
\* --symlink, is listed as skipped with the reason "Already exists", and no
\* strategy function is called for a skipped target, whose destination stays
\* as it was.
C1_SkipExisting ==
  InInstall =>
    /\ \A n \in AgentNames :
         (Processed(n) /\ Exists(fs0, DestOf(n)) /\ ~argv.symlink)
           => Listed(results.skipped, n)
    /\ \A k \in DOMAIN results.skipped :
         LET e == results.skipped[k] IN
         /\ e.reason = "Already exists"
         /\ e.path = DestOf(e.agent)
         /\ CallsFor(e.agent) = << >>
         /\ Content(fs, e.path) = Content(fs0, e.path)

\* one target was skipped and another one installed
C1_Witness ==
  /\ InInstall
  /\ pc = "idle"
  /\ outcome = "returned"
  /\ Len(results.skipped) = 1
  /\ Len(results.installed) = 1
  /\ calls # << >>

\* the running (or last) command repeats the install before it, without --symlink
Rerun == InInstall /\ prev.argv = argv /\ ~argv.symlink

\* the second run skipped the target of entry e of the first run's report and
\* left its destination as the first run left it
SkippedUnchanged(e) ==
  /\ \E k \in DOMAIN results.skipped :
       /\ results.skipped[k].agent = e.agent
       /\ results.skipped[k].reason = "Already exists"
       /\ results.skipped[k].path = e.path
  /\ ~Listed(results.installed, e.agent)
  /\ ~Listed(results.failed, e.agent)
  /\ Content(fs, e.path) = Content(fs0, e.path)

\* C2 as stated: whatever the strategy that reported Installed in the first
\* run, the same install run again reports the target as Skipped and leaves
\* the destination's content as it was.
C2_Original ==
  Rerun => \A k \in DOMAIN prev.installed :
             Processed(prev.installed[k].agent) => SkippedUnchanged(prev.installed[k])

\* C2: a target the first run reported Installed by a strategy that writes the
\* destination itself (copy, sparse checkout, download) is reported Skipped
\* with "Already exists" by the same install run again without --symlink, and
\* the destination's content after both runs is the content after the first.
\* The native command owns placement, so a first run Installed by "builtin"
\* promises nothing about the destination.
C2_Idempotent ==
  Rerun => \A k \in DOMAIN prev.installed :
             (prev.installed[k].method # "builtin" /\ Processed(prev.installed[k].agent))
               => SkippedUnchanged(prev.installed[k])

\* the second run is over and skipped a target the first run installed by download
C2_Witness ==
  /\ Rerun
  /\ pc = "idle"
  /\ outcome = "returned"
  /\ \E k \in DOMAIN prev.installed :
       /\ prev.installed[k].method = "download"
       /\ SkippedUnchanged(prev.installed[k])
       /\ Exists(fs, prev.installed[k].path)

\* install_skill 282-297: the strategy functions in the order the code calls
\* them, and the method each one is reported as
STRATEGIES == <<"install_builtin", "install_git_sparse", "install_download">>

MethodName(fn) ==
  CASE fn = "install_builtin" -> "builtin"
    [] fn = "install_git_sparse" -> "git"
    [] fn = "install_download" -> "download"
    [] OTHER -> "None"

Rank(fn) == CHOOSE k \in DOMAIN STRATEGIES : STRATEGIES[k] = fn

\* the strategies the mode and the target's registry entry enable, by rank
EnabledFor(n) ==
  {k \in DOMAIN STRATEGIES :
     /\ argv.method \in {"auto", MethodName(STRATEGIES[k])}
     /\ STRATEGIES[k] = "install_builtin" => AgentOf(n).builtin_install # NoCmd}

Ranks(cs) == {Rank(cs[k].fn) : k \in DOMAIN cs}

\* the loop finished target n and did not skip it
Attempted(n) == Processed(n) /\ ~Listed(results.skipped, n)

Over(n) == InInstall /\ n \in Range(Selected) /\ (pc = "idle" \/ Processed(n))

\* C4: in auto mode, for a target without a native command, once the sparse
\* checkout has failed in any way (returned False or raised), the download
\* is attempted before the install is over for that target, and a target
\* listed as failed had its download attempted.
C4_Fallback ==
  (InInstall /\ RepoAtStart /\ argv.method = "auto") =>
    \A n \in AgentNames :
      AgentOf(n).builtin_install = NoCmd =>
        /\ (Over(n) /\ \E k \in DOMAIN calls :
                          /\ calls[k].agent = n
                          /\ calls[k].fn = "install_git_sparse"
                          /\ calls[k].ret \in {"False", "raised"})
             => \E k \in DOMAIN calls :
                  calls[k].agent = n /\ calls[k].fn = "install_download"
        /\ Listed(results.failed, n)
             => \E k \in DOMAIN calls :
                  calls[k].agent = n /\ calls[k].fn = "install_download"

\* the modes that name one strategy
SingleModes == {"builtin", "git", "download"}

OrdinaryFailures == {"CalledProcessError", "TimeoutExpired", "URLError"}

\* C6: no call of one of the three strategies ends in an exception raised
\* for an ordinary failure; such a failure is the strategy returning False.
C6_NeverRaises ==
  \A k \in DOMAIN calls :
    (calls[k].fn \in Range(STRATEGIES) /\ calls[k].ret = "raised")
      => outcome \notin OrdinaryFailures

\* what a destination that cannot be written raises
FilesystemFaults == {"FileExistsError", "NotADirectoryError"}

\* C7: once an install that passed its fatal checks is over, and no
\* destination was unwritable, every selected target is in exactly one of
\* the lists of the report, whatever the strategies did at the targets before it.
C7_EveryTargetGetsOutcome ==
  (InInstall /\ pc = "idle" /\ outcome \notin FilesystemFaults) =>
    \A n \in Range(Selected) :
      Cardinality({l \in {"installed", "failed", "skipped"} : Listed(results[l], n)}) = 1

\* main 333-334: the report as json.dumps writes it, the lists of the dict
\* of install_skill 226 one after the other
Report(r) == r.installed \o r.failed \o r.skipped

AgentsOf(list) == [k \in DOMAIN list |-> list[k].agent]

\* the place of an agent in the registry
RegistryRank(n) == CHOOSE k \in DOMAIN AGENTS : AGENTS[k].name = n

InRegistryOrder(list) ==
  \A a, b \in DOMAIN list : a < b => RegistryRank(list[a].agent) < RegistryRank(list[b].agent)

\* C8 as stated: the report an install returns is one sequence that holds the
\* outcomes of the targets in registry order, whatever their kind.
C8_Original ==
  (InInstall /\ pc = "idle" /\ outcome = "returned") =>
    /\ Len(Report(results)) = Len(Selected)
    /\ InRegistryOrder(Report(results))

\* C8: the report an install returns holds exactly one outcome per selected
\* target, grouped by kind into the lists installed, failed and skipped, and
\* within each list the outcomes are in registry order.
C8_GroupedReport ==
  InInstall =>
    /\ InRegistryOrder(results.installed)
    /\ InRegistryOrder(results.failed)
    /\ InRegistryOrder(results.skipped)
    /\ (pc = "idle" /\ outcome = "returned") =>
         /\ Len(Report(results)) = Len(Selected)
         /\ Range(AgentsOf(Report(results))) = Range(Selected)

\* two targets were installed and the report lists them in registry order
C8_Witness ==
  /\ InInstall
  /\ pc = "idle"
  /\ outcome = "returned"
  /\ Len(results.installed) = 2
  /\ RegistryRank(results.installed[1].agent) < RegistryRank(results.installed[2].agent)

\* the number of "/" in a string
Slashes(s) == Cardinality({k \in DOMAIN s : s[k] = SLASH})

\* a source string a command line can name: an existing path, a URL on the
\* repository host with an owner and a repository (and, after tree or blob,
\* a ref), or a shorthand with at least owner/repo
ValidSource(f, s) ==
  \/ Exists(f, PathOf(s))
  \/ /\ StartsWithHttp(s)
     /\ UrlNetloc(s) \in {"github.com", "www.github.com"}
     /\ LET parts == NonEmpty(Split(UrlPath(s))) IN
        /\ Len(parts) >= 2
        /\ (Len(parts) > 2 /\ parts[3] \in {"tree", "blob"}) => Len(parts) >= 4
  \/ ~StartsWithHttp(s) /\ Slashes(s) >= 1

\* the three fatal cases of an install, on the host as the command found it
InvalidSource == ~ValidSource(fs0, argv.source_str)
NoTargetsDetected == present = {}
UnknownTarget ==
  /\ argv.agents # <<"all">>
  /\ \A k \in DOMAIN argv.agents : argv.agents[k] \notin present

\* C9: an install ends with the fatal error main reports (InstallError: an
\* error message, exit status 1, no report, no strategy called, the
\* filesystem as it was) exactly when the source is invalid, no agent is
\* detected, or a selector other than "all" matches no detected agent;
\* otherwise the loop over the targets is entered.
C9_FatalExactly ==
  (argv.cmd = "install" /\ pc = "idle") =>
    /\ outcome = "InstallError" <=> (InvalidSource \/ NoTargetsDetected \/ UnknownTarget)
    /\ outcome = "InstallError" =>
         /\ results = NoResults
         /\ fs = fs0
         /\ calls = << >>
         /\ exit_code = 1
         /\ error_msg # ""
    /\ outcome # "InstallError" => results # NoResults

\* a selector that names one agent ended in the fatal error on a host where
\* another agent is detected and the source is valid
C9_Witness ==
  /\ argv.cmd = "install"
  /\ pc = "idle"
  /\ outcome = "InstallError"
  /\ UnknownTarget
  /\ ~InvalidSource
  /\ ~NoTargetsDetected

\* C10: after an install that reported a target Installed at a path, an
\* uninstall of the skill by its name for that target leaves nothing at
\* that path.
C10_Symmetry ==
  (argv.cmd = "uninstall" /\ pc = "idle" /\ outcome = "returned"
     /\ prev.argv.cmd = "install") =>
    \A k \in DOMAIN prev.installed :
      (/\ prev.installed[k].agent \in Range(Selected)
       /\ PathName(prev.installed[k].path) = argv.skill_name)
        => ~Exists(fs, prev.installed[k].path)

\* an uninstall is running or has ended
InUninstall == argv.cmd = "uninstall"

\* uninstall_skill 52: the path uninstall looks at for agent n
SkillPath(n) == Child(AgentOf(n).skills_path, argv.skill_name)

\* the agent's own remove command ran for n and exited with 0
NativeRemoved(n) ==
  \E k \in DOMAIN calls :
    calls[k].agent = n /\ calls[k].fn = "uninstall_builtin" /\ calls[k].ret = "True"

ListedAs(list, n, method) ==
  \E k \in DOMAIN list : list[k].agent = n /\ list[k].method = method

\* C11: when an uninstall is over every selected target is in exactly one of
\* the lists removed and not_found: removed with method "builtin" when its
\* native remove command succeeded; otherwise removed with method "file",
\* and nothing left at its path, when anything (a symlink, a directory or a
\* file) was at installRoot/skillName; otherwise not_found.
C11_UninstallOutcomes ==
  (InUninstall /\ pc = "idle") =>
    \A n \in Range(Selected) :
      /\ Listed(results.removed, n) # Listed(results.not_found, n)
      /\ NativeRemoved(n) => ListedAs(results.removed, n, "builtin")
      /\ (~NativeRemoved(n) /\ LExists(fs0, SkillPath(n)))
           => (ListedAs(results.removed, n, "file") /\ ~LExists(fs, SkillPath(n)))
      /\ (~NativeRemoved(n) /\ ~LExists(fs0, SkillPath(n)))
           => Listed(results.not_found, n)

\* the paths at or below the skill path of one of the agents in S
SkillPaths(f, S) == UNION {Below(f, SkillPath(n)) : n \in S}

\* the selected targets the loop of uninstall_skill has not reached yet
NotReached == {target_agents[k] : k \in {j \in DOMAIN target_agents : j >= i}}

InstallReported == argv.cmd = "install" /\ pc = "idle" /\ outcome = "returned"

\* C13: an install that produces a report exits with 1 exactly when the
\* report lists a failed target and no installed one, and with 0 otherwise.
C13_InstallExitStatus ==
  InstallReported =>
    /\ exit_code \in {0, 1}
    /\ exit_code = 1 <=>
         ((\E n \in AgentNames : Listed(results.failed, n))
          /\ ~(\E n \in AgentNames : Listed(results.installed, n)))

\* one target failed, another was installed, and the exit status is 0
C13_Witness ==
  /\ InstallReported
  /\ Len(results.failed) = 1
  /\ Len(results.installed) = 1
  /\ exit_code = 0

\* an uninstall has returned its report
UninstallReported == InUninstall /\ pc = "idle" /\ outcome = "returned"

\* C14: an uninstall that returns exits with 0 exactly when a target is
\* listed as removed, and with 1 otherwise; so it exits with 1 when no agent
\* is detected and when the selector matches no detected agent.
C14_UninstallExitStatus ==
  UninstallReported =>
    /\ exit_code \in {0, 1}
    /\ exit_code = 0 <=> (\E n \in AgentNames : Listed(results.removed, n))
    /\ (present = {} \/ UnknownTarget) =>
         (exit_code = 1 /\ results = UninstallResults0 /\ fs = fs0)

\* an uninstall whose selector matches none of the detected agents exited with 1
C14_Witness ==
  /\ UninstallReported
  /\ present # {}
  /\ UnknownTarget
  /\ exit_code = 1

\* the source string named an existing path when the install started
LocalAtStart == argv.cmd = "install" /\ Exists(fs0, PathOf(argv.source_str))

\* the strategy steps of a repository source
RepositorySteps == {"builtin", "git", "git_copy", "download", "extract"}

\* C15: when the source string names an existing path the install never
\* rejects it, takes it as a local source (source is None) whatever its shape,
\* and handles every target it does not skip by install_local alone: no
\* repository strategy is called for any target.
C15_ExistingPathIsLocal ==
  LocalAtStart =>
    /\ outcome = "InstallError" => (NoTargetsDetected \/ UnknownTarget)
    /\ pc # "idle" => source = None
    /\ pc \notin RepositorySteps
    /\ \A k \in DOMAIN calls : calls[k].fn = "install_local"
    /\ \A n \in AgentNames : Attempted(n) => Len(CallsFor(n)) = 1
    /\ InInstall => \A k \in DOMAIN results.installed :
                      results.installed[k].method \in {"copy", "symlink"}

\* a source string that parse_shorthand would take names an existing path,
\* and two targets were installed from it as a local source
C15_Witness ==
  /\ LocalAtStart
  /\ parse_shorthand(argv.source_str).tag = "Source"
  /\ InstallReported
  /\ Len(results.installed) = 2
  /\ Len(calls) = 2

\* the parser has answered, for a string that names no existing path
Parsed == argv.cmd = "parse" /\ pc = "parsed" /\ ~Exists(fs, PathOf(argv.source_str))

\* the segments of the input that are not empty
NSegs == NonEmpty(argv.segs)

Rest(s, k) == SubSeq(s, k, Len(s))

\* the subpath `path` is the segments `segs` joined by "/"
PathIs(path, segs) == IF segs = << >> THEN path = << >> ELSE Split(path) = segs

\* owner/repo[/seg1/.../segN] with no segment empty
ValidShorthand ==
  /\ argv.form = "shorthand"
  /\ Len(argv.segs) >= 2
  /\ \A k \in DOMAIN argv.segs : argv.segs[k] # ""

C17_DerivedName ==
  (Parsed /\ source # None) =>
    LET sub == NonEmpty(Split(source.path)) IN
    /\ skill_name # ""
    /\ skill_name # SLASH
    /\ skill_name = (IF sub # << >> THEN Last(sub) ELSE source.repo)

\* a URL of the repository host that names an owner and a repository
RepoUrl ==
  /\ argv.form = "url"
  /\ argv.host \in {"github.com", "www.github.com"}
  /\ Len(NSegs) >= 2

\* the descriptor has the given owner, repo, ref and subpath segments
Descriptor(owner, repo, ref, segs) ==
  /\ outcome = "returned"
  /\ source # None
  /\ source.owner = owner
  /\ source.repo = repo
  /\ source.ref = ref
  /\ PathIs(source.path, segs)

NoOwnerRepo ==
  \/ argv.form = "shorthand" /\ Len(argv.segs) < 2
  \/ argv.form = "url" /\ Len(NSegs) < 2
  \/ argv.form = "url" /\ argv.host \notin {"github.com", "www.github.com"}

C20_SymlinkReplaces ==
  (LocalAtStart /\ argv.symlink /\ pc = "idle" /\ outcome # "InstallError") =>
    \A n \in Range(Selected) :
      /\ IsSymlink(fs, DestOf(n))
      /\ fs[DestOf(n)].to = Resolve(fs0, PathOf(argv.source_str))
      /\ ListedAs(results.installed, n, "symlink")

\* the local path is gone: the target whose destination it names was
\* processed before n and replaced it
GoneBefore(n) ==
  /\ ~Exists(fs, PathOf(argv.source_str))
  /\ \E m \in Range(Selected) :
       /\ DestOf(m) = PathOf(argv.source_str)
       /\ RegistryRank(m) < RegistryRank(n)

\* n has exactly one entry in the report: installed at its destination with
\* this method
InstalledOnce(n, method) ==
  /\ Len(SelectSeq(results.installed, LAMBDA e : e.agent = n)) = 1
  /\ \A k \in DOMAIN results.installed :
       results.installed[k].agent = n =>
         results.installed[k] = [agent |-> n, path |-> DestOf(n), method |-> method]
  /\ ~Listed(results.failed, n)
  /\ ~Listed(results.skipped, n)

\* C21: for a local source that is a directory, without --symlink, a target
\* with nothing at its destination when the install starts ends with the
\* destination a directory holding a copy of the tree of the local path and
\* is listed once, as installed by method copy; a target processed when the
\* local path is gone is listed as failed and not as installed.
C21_LocalCopy ==
  (InInstall /\ LocalAtStart) =>
    \A n \in AgentNames :
      Processed(n) =>
        /\ (~argv.symlink /\ IsDir(fs0, PathOf(argv.source_str)) /\ ~LExists(fs0, DestOf(n)))
             => /\ InstalledOnce(n, "copy")
                /\ IsDir(fs, DestOf(n))
                /\ TreeAt(fs, DestOf(n)) = TreeAt(fs0, PathOf(argv.source_str))
        /\ GoneBefore(n)
             => Listed(results.failed, n) /\ ~Listed(results.installed, n)

\* a copy install has returned and lists as installed a target that had
\* nothing at its destination
C21_Witness ==
  /\ InstallReported
  /\ LocalAtStart
  /\ ~argv.symlink
  /\ \E n \in Range(Selected) :
       /\ ~LExists(fs0, DestOf(n))
       /\ InstalledOnce(n, "copy")
       /\ TreeAt(fs, DestOf(n)) # << >>

\* a target was processed after the local path was gone
C21_WitnessGone ==
  /\ InstallReported
  /\ LocalAtStart
  /\ \E n \in Range(Selected) : GoneBefore(n) /\ Listed(results.failed, n)

\* the native command of target n was run and exited 0
NativeSucceeded(n) == Call(n, "install_builtin", "True") \in Range(calls)

\* what the destination of n holds when only the agent's own tool, run from
\* the state the install started in, may have written
NativePlacements(n) ==
  {Content(ToolPlaces(fs0, AgentOf(n), NameAtStart, placed), DestOf(n)) : placed \in BOOLEAN}

\* C22: once the native command has succeeded for a target, that call is the
\* only strategy call for the target (no sparse checkout, no download, no
\* temporary directory while the target is processed), the destination holds
\* what it held before or what the agent's own tool put there (with --local,
\* where the tool does not write, exactly what it held before), and the
\* target is listed once, as installed by method builtin.
C22_NativeTerminal ==
  InInstall =>
    \A n \in AgentNames :
      NativeSucceeded(n) =>
        /\ CallsFor(n) = <<Call(n, "install_builtin", "True")>>
        /\ (pc # "idle" /\ i <= Len(target_agents) /\ target_agents[i] = n) => tmpdirs = 0
        /\ Content(fs, DestOf(n)) \in NativePlacements(n)
        /\ argv.local => Content(fs, DestOf(n)) = Content(fs0, DestOf(n))
        /\ Processed(n) => InstalledOnce(n, "builtin")

\* an auto-mode install has returned after the native command succeeded for
\* a target, which is listed as installed by builtin
C22_Witness ==
  /\ InstallReported
  /\ argv.method = "auto"
  /\ \E n \in Range(Selected) : NativeSucceeded(n) /\ InstalledOnce(n, "builtin")

\* a strategy function of a repository source was called for target n
RepositoryCalls(n) == {k \in DOMAIN CallsFor(n) : CallsFor(n)[k].fn \in Range(STRATEGIES)}

\* what install_local gives for target n when it is run in the state the
\* install started in, as it is when n is the only target
Alone(n) == install_local(fs0, PathOf(argv.source_str), DestOf(n), argv.symlink)

\* C23: what is done for a processed target follows from the source string,
\* the target's registry entry and the state its own destination had when
\* the install started: it is skipped exactly if its destination existed
\* then (and --symlink is off); it is handled by install_local only if the
\* source was local then, and by repository strategies only if it was a
\* repository source then; and for a local source it is listed as installed
\* exactly if install_local succeeds for it when it is the only target.
C23_Independence ==
  InInstall =>
    \A n \in AgentNames :
      Processed(n) =>
        /\ Listed(results.skipped, n) <=> AlreadyExists(fs0, DestOf(n), argv.symlink)
        /\ Call(n, "install_local", "True") \in Range(calls) => LocalAtStart
        /\ RepositoryCalls(n) # {} => RepoAtStart
        /\ (LocalAtStart /\ ~Listed(results.skipped, n) /\ Alone(n).exc = "")
             => (Listed(results.installed, n) <=> Alone(n).result)

\* the steps inside the with blocks of install_git_sparse and install_download
InAttempt == pc \in {"git_copy", "extract"}

\* C24: at most one temporary directory exists at a time, and one exists
\* only while a sparse-checkout or download attempt is inside its with
\* block: none is left when the attempt has returned True or False or has
\* raised, so none exists between targets or after a command, however many
\* commands ran before.
C24_TempDirsRemoved ==
  /\ tmpdirs \in {0, 1}
  /\ tmpdirs = 1 <=> InAttempt

\* a command that followed an install which installed by sparse checkout was
\* ended by an error raised inside the with block of install_git_sparse, and
\* no temporary directory is left
C24_Witness ==
  /\ pc = "idle"
  /\ ops > 1
  /\ outcome = "CalledProcessError"
  /\ \E k \in DOMAIN prev.installed : prev.installed[k].method = "git"
  /\ tmpdirs = 0

\* the last strategy call made for target n so far
LastCall(n) == CallsFor(n)[Len(CallsFor(n))]

\* C25: a sparse checkout that did not install never raises: its call ends
\* with False, whether the clone exited non-zero or timed out, the
\* sparse-checkout command failed or the subpath was missing; and as long as
\* it is the last strategy called for its target, the target's destination
\* holds what it held when the install started.
C25_SparseCleanFailure ==
  (InInstall /\ outcome \notin FilesystemFaults) =>
    \A n \in AgentNames :
      (CallsFor(n) # << >> /\ LastCall(n).fn = "install_git_sparse"
         /\ LastCall(n).ret \notin {"pending", "True"})
        => /\ LastCall(n).ret = "False"
           /\ Content(fs, DestOf(n)) = Content(fs0, DestOf(n))

\* C26: when the archive request is answered with an HTTP status of 400 or
\* more, install_download returns False and nothing is raised; the target is
\* then listed as failed, not as installed (in mode download as in mode
\* auto, where the download is the last strategy), and a destination that
\* was not there is still not there.  For a repository source the
\* destination of every target listed as failed holds what it held when the
\* install started.
C26_HttpErrorFails ==
  InInstall =>
    /\ answer = "http_error" =>
         LET c == calls[Len(calls)] IN
         /\ c.fn = "install_download"
         /\ c.ret = "False"
         /\ outcome \in {"running", "returned"}
         /\ Processed(c.agent)
              => Listed(results.failed, c.agent) /\ ~Listed(results.installed, c.agent)
         /\ ~LExists(fs0, DestOf(c.agent)) => ~LExists(fs, DestOf(c.agent))
    /\ RepoAtStart =>
         \A n \in AgentNames :
           Listed(results.failed, n) => Content(fs, DestOf(n)) = Content(fs0, DestOf(n))

\* an install in mode download has returned; the archive request of its
\* last target got an HTTP error, the target is listed as failed and nothing
\* is at its destination
C26_Witness ==
  /\ InstallReported
  /\ argv.method = "download"
  /\ answer = "http_error"
  /\ Listed(results.failed, calls[Len(calls)].agent)
  /\ ~LExists(fs, DestOf(calls[Len(calls)].agent))

\* C27: when the payload of the download is no zip archive, or the archive
\* has no <repo>-* folder, or the folder lacks the subpath, install_download
\* returns False: nothing is raised, and the destination holds what it held
\* when the install started.
C27_ExtractCleanFailure ==
  (InInstall /\ calls # << >>) =>
    LET c == calls[Len(calls)] IN
    (c.fn = "install_download" /\ answer \in {"bad_zip", "no_folder", "missing"})
      => /\ c.ret = "False"
         /\ outcome \in {"running", "returned"}
         /\ Content(fs, DestOf(c.agent)) = Content(fs0, DestOf(c.agent))

\* the targets the loop had not come to when the command ended
Untried == {n \in Range(Selected) : ~Listed(results.installed, n) /\ ~Listed(results.failed, n)
                                    /\ ~Listed(results.skipped, n) /\ CallsFor(n) = << >>}

\* C28: an install that an interrupt ended still returns its report, with
\* exit status 0 or 1 as the report decides; the report lists no target the
\* loop had not come to, and its entries are those recorded before the
\* interrupt.
C28_Cancellation ==
  (argv.cmd = "install" /\ answer = "interrupt") =>
    /\ outcome = "returned"
    /\ exit_code = InstallExitCode(results)
    /\ \A n \in Untried : ~Listed(results.failed, n)

\* C29: no install is ever held in an external call that does not return: a
\* call that stalls is ended by its timeout, so the command goes on to its
\* end.
C29_NoCallWithoutTimeout == argv.cmd = "install" => pc # "stalled"

\* C30: when an install has returned, every entry it lists as installed by
\* a method other than builtin names a path that exists, and every entry it
\* lists as installed belongs to a target for which a strategy call
\* returned True.
C30_InstalledPathExists ==
  InstallReported =>
    \A k \in DOMAIN results.installed :
      LET e == results.installed[k] IN
      /\ e.method # "builtin" => Exists(fs, e.path)
      /\ \E c \in Range(calls) : c.agent = e.agent /\ c.ret = "True"

====
